---- MODULE Spec2Model ----
(***************************************************************************)
(* orbit_rat: two analog sticks turned into relative mouse motion.         *)
(* Model of src/src/main.cpp: calibration, normalisation, the dead zone,   *)
(* the motion state machine of sendMouse() and the unwind loop.            *)
(*                                                                         *)
(* `int` is the 32-bit two's complement int of the ARM Teensy boards and   *)
(* `float` is IEEE-754 binary32 with round-to-nearest-even.  Signed        *)
(* overflow wraps; a float -> int conversion of NaN, an infinity or an     *)
(* out-of-range value is undefined behaviour and is a nondeterministic     *)
(* choice over FloatToIntUB.                                               *)
(***************************************************************************)
EXTENDS Integers, Sequences, FiniteSets, TLC

(***************************************************************************)
(* Configuration constants (main.cpp lines 5-25, 41-46).                   *)
(***************************************************************************)
calibrate_on_startup == TRUE
send_joystick_hid == FALSE
n_axes == 4
pan_speed == -25
orbit_speed == -10
max_unwind_step == 100
KEY_LEFT_SHIFT == 225

Axes == 0 .. (n_axes - 1)

\* stick_active_buttons[stickIndex], as 0/1 for left, middle, right
stick_active_buttons == [s \in {0, 1} |-> <<0, 1, 0>>]

\* stick_active_key[stickIndex]; 0 for no key
stick_active_key == [s \in {0, 1} |-> IF s = 0 THEN 0 ELSE KEY_LEFT_SHIFT]

\* the configured {low, center, high} of each axis
axisExtentsConfig ==
  [i \in Axes |-> CASE i = 0 -> <<3, 520, 1021>>
                    [] i = 1 -> <<6, 498, 1019>>
                    [] i = 2 -> <<3, 530, 1021>>
                    [] i = 3 -> <<2, 513, 1022>>]

(***************************************************************************)
(* 32-bit int arithmetic.                                                  *)
(***************************************************************************)
INT_MAX == 2147483647
INT_MIN == (-2147483647) - 1

\* a + b overflows upward / downward
AddOverflowsUp(a, b) == a > 0 /\ b > 0 /\ a > INT_MAX - b
AddOverflowsDown(a, b) == a < 0 /\ b < 0 /\ a < INT_MIN - b

\* a + b in two's complement
IntAdd(a, b) ==
  IF AddOverflowsUp(a, b) THEN (a + INT_MIN) + (b + INT_MIN)
  ELSE IF AddOverflowsDown(a, b) THEN (a - INT_MIN) + (b - INT_MIN)
  ELSE a + b

\* -a in two's complement: -INT_MIN is INT_MIN
IntNeg(a) == IF a = INT_MIN THEN INT_MIN ELSE -a

\* the Arduino min() macro
min(a, b) == IF a < b THEN a ELSE b

(***************************************************************************)
(* binary32 arithmetic.  A float is [k, s, m, e]: k is "fin", "inf" or     *)
(* "nan"; a finite value is s * m * 2^e with s in {1, -1} and m = 0 (a     *)
(* signed zero, e = 0) or 2^23 <= m < 2^24.  The values of this program    *)
(* stay far from the subnormal and the overflow range.                     *)
(***************************************************************************)
Pow2(n) == 2 ^ n
MantLo == 8388608      \* 2^23
MantHi == 16777216     \* 2^24

FZero(s) == [k |-> "fin", s |-> s, m |-> 0, e |-> 0]
FInf(s) == [k |-> "inf", s |-> s, m |-> 0, e |-> 0]
FNaN == [k |-> "nan", s |-> 1, m |-> 0, e |-> 0]

IsFinite(f) == f.k = "fin"
IsZero(f) == f.k = "fin" /\ f.m = 0

\* number of bits of n > 0 (n < 2^30)
BitLen(n) == CHOOSE b \in 1 .. 30 : Pow2(b - 1) <= n /\ (b = 30 \/ n < Pow2(b))

\* round s * (M + sticky fraction) * 2^E to the nearest float, ties to even;
\* 0 < M < 2^30, and sticky is set only when M has at least 26 bits
RoundPack(s, M, E, sticky) ==
  LET b == BitLen(M) IN
  IF b <= 24
  THEN [k |-> "fin", s |-> s, m |-> M * Pow2(24 - b), e |-> E - (24 - b)]
  ELSE LET sh   == b - 24
           q    == M \div Pow2(sh)
           lost == M % Pow2(sh)
           half == Pow2(sh - 1)
           up   == \/ lost > half
                   \/ lost = half /\ (sticky \/ q % 2 = 1)
           r    == IF up THEN q + 1 ELSE q
       IN IF r = MantHi
          THEN [k |-> "fin", s |-> s, m |-> MantLo, e |-> E + sh + 1]
          ELSE [k |-> "fin", s |-> s, m |-> r, e |-> E + sh]

\* (float) i for an int i with |i| < 2^24
F_fromInt(i) ==
  IF i = 0 THEN FZero(1)
  ELSE RoundPack(IF i < 0 THEN -1 ELSE 1, IF i < 0 THEN -i ELSE i, 0, FALSE)

\* -f
F_neg(f) == IF f.k = "nan" THEN f ELSE [f EXCEPT !.s = -f.s]

\* a + b for finite nonzero a, b with a.e >= b.e: three guard bits and a sticky bit
AddAligned(a, b) ==
  LET d   == a.e - b.e
      A   == a.m * 8
      B   == IF d <= 3 THEN b.m * Pow2(3 - d)
             ELSE IF d - 3 >= 24 THEN 0 ELSE b.m \div Pow2(d - 3)
      st  == IF d <= 3 THEN FALSE
             ELSE IF d - 3 >= 24 THEN TRUE ELSE b.m % Pow2(d - 3) # 0
      E   == a.e - 3
  IN IF a.s = b.s THEN RoundPack(a.s, A + B, E, st)
     ELSE IF A = B /\ ~st THEN FZero(1)
     ELSE IF A > B THEN RoundPack(a.s, IF st THEN A - B - 1 ELSE A - B, E, st)
     ELSE RoundPack(b.s, B - A, E, FALSE)

\* a + b
F_add(a, b) ==
  IF a.k = "nan" \/ b.k = "nan" THEN FNaN
  ELSE IF a.k = "inf" /\ b.k = "inf" THEN (IF a.s = b.s THEN a ELSE FNaN)
  ELSE IF a.k = "inf" THEN a
  ELSE IF b.k = "inf" THEN b
  ELSE IF a.m = 0 /\ b.m = 0 THEN FZero(IF a.s = -1 /\ b.s = -1 THEN -1 ELSE 1)
  ELSE IF a.m = 0 THEN b
  ELSE IF b.m = 0 THEN a
  ELSE IF a.e >= b.e THEN AddAligned(a, b) ELSE AddAligned(b, a)

\* a - b
F_sub(a, b) == F_add(a, F_neg(b))

\* n more quotient bits of r / d by long division (r < d): <<quotient, remainder>>
RECURSIVE DivBits(_, _, _, _)
DivBits(q, r, d, n) ==
  IF n = 0 THEN <<q, r>>
  ELSE IF 2 * r >= d THEN DivBits(2 * q + 1, 2 * r - d, d, n - 1)
       ELSE DivBits(2 * q, 2 * r, d, n - 1)

\* a / b
F_div(a, b) ==
  IF a.k = "nan" \/ b.k = "nan" THEN FNaN
  ELSE IF a.k = "inf" THEN (IF b.k = "inf" THEN FNaN ELSE FInf(a.s * b.s))
  ELSE IF b.k = "inf" THEN FZero(a.s * b.s)
  ELSE IF b.m = 0 THEN (IF a.m = 0 THEN FNaN ELSE FInf(a.s * b.s))
  ELSE IF a.m = 0 THEN FZero(a.s * b.s)
  ELSE LET qr == DivBits(a.m \div b.m, a.m % b.m, b.m, 26)
       IN RoundPack(a.s * b.s, qr[1], a.e - b.e - 26, qr[2] # 0)

\* a * b: the 48-bit product of the mantissas from their 12-bit halves, its
\* top 28 or 29 bits kept and the rest folded into the sticky bit
F_mul(a, b) ==
  IF a.k = "nan" \/ b.k = "nan" THEN FNaN
  ELSE IF a.k = "inf" \/ b.k = "inf"
       THEN (IF IsZero(a) \/ IsZero(b) THEN FNaN ELSE FInf(a.s * b.s))
  ELSE IF a.m = 0 \/ b.m = 0 THEN FZero(a.s * b.s)
  ELSE LET a1  == a.m \div 4096
           a0  == a.m % 4096
           b1  == b.m \div 4096
           b0  == b.m % 4096
           lo  == a0 * b0
           mid == a1 * b0 + a0 * b1 + lo \div 4096
           hi  == a1 * b1 + mid \div 4096
           c1  == mid % 4096
           c0  == lo % 4096
       IN RoundPack(a.s * b.s, hi * 16 + c1 \div 256, a.e + b.e + 20,
                    c1 % 256 # 0 \/ c0 # 0)

\* a < b  (false when either is NaN)
F_lt(a, b) ==
  IF a.k = "nan" \/ b.k = "nan" THEN FALSE
  ELSE IF a.k = "inf" THEN a.s = -1 /\ ~(b.k = "inf" /\ b.s = -1)
  ELSE IF b.k = "inf" THEN b.s = 1
  ELSE IF a.m = 0 /\ b.m = 0 THEN FALSE
  ELSE IF a.m = 0 THEN b.s = 1
  ELSE IF b.m = 0 THEN a.s = -1
  ELSE IF a.s # b.s THEN a.s = -1
  ELSE IF a.s = 1 THEN a.e < b.e \/ (a.e = b.e /\ a.m < b.m)
  ELSE a.e > b.e \/ (a.e = b.e /\ a.m > b.m)

\* a > b
F_gt(a, b) == F_lt(b, a)

\* a == b  (+0 equals -0, NaN equals nothing)
F_eq(a, b) ==
  IF a.k = "nan" \/ b.k = "nan" THEN FALSE
  ELSE IF IsZero(a) /\ IsZero(b) THEN TRUE
  ELSE a = b

\* the Arduino abs() macro: ((x) > 0 ? (x) : -(x))
abs(x) == IF F_gt(x, FZero(1)) THEN x ELSE F_neg(x)

\* the outcomes of converting a NaN, an infinity or an out-of-range float to int
FloatToIntUB == {INT_MIN, 0, INT_MAX}

\* (int) f: truncation toward zero; a set, because the conversion of a
\* value that does not fit is undefined
F_toInt(f) ==
  IF f.k # "fin" THEN FloatToIntUB
  ELSE IF f.m = 0 THEN {0}
  ELSE IF f.e <= -24 THEN {0}
  ELSE IF f.e <= 0 THEN {f.s * (f.m \div Pow2(-f.e))}
  ELSE IF f.e <= 7 THEN {f.s * f.m * Pow2(f.e)}
  ELSE FloatToIntUB

\* an unsigned int is written as the int with the same 32 bits, so 0 .. INT_MAX
\* stand for themselves and -1 stands for UINT_MAX; the outcomes of converting
\* a NaN, an infinity or a float of 2^32 or more to unsigned int
FloatToUintUB == {0, -1}

\* (unsigned int) f: truncation toward zero; a float that truncates to a
\* negative integer does not fit, and the conversion gives 0 or the bits of
\* the signed conversion
F_toUint(f) ==
  IF f.k # "fin" THEN FloatToUintUB
  ELSE IF f.m = 0 THEN {0}
  ELSE IF f.e <= -24 THEN {0}
  ELSE IF f.s = -1 THEN {0} \cup F_toInt(f)
  ELSE IF f.e <= 7 THEN F_toInt(f)
  ELSE IF f.e = 8 THEN {(f.m - MantHi) * Pow2(8)}
  ELSE FloatToUintUB


(***************************************************************************)
(* The functions of main.cpp.                                              *)
(***************************************************************************)
\* constexpr float deadzone = 0.02: the float nearest to 2/100
deadzone == F_div(F_fromInt(2), F_fromInt(100))

\* normalize(low, val, high) on floats
normalize(low, val, high) ==
  LET range == F_sub(high, low)
  IN F_div(F_sub(val, low), range)

\* to_joy(val): (unsigned int) ((val + 1.f) / 2.f * 1023)
to_joy(val) ==
  F_toUint(F_mul(F_div(F_add(val, F_fromInt(1)), F_fromInt(2)), F_fromInt(1023)))

\* normalizeAxis with one linear segment from low to high above the center
normalizeAxis_OneSegment(ext, v) ==
  LET lo == F_fromInt(ext[1])
      ce == F_fromInt(ext[2])
      hi == F_fromInt(ext[3])
      fv == F_fromInt(v)
      n  == IF v < ext[2]
            THEN F_neg(F_sub(F_fromInt(1), normalize(lo, fv, ce)))
            ELSE normalize(lo, fv, hi)
  IN F_neg(n)

\* normalizeAxis without the negation of the lower half
normalizeAxis_NoNegate(ext, v) ==
  LET lo == F_fromInt(ext[1])
      ce == F_fromInt(ext[2])
      hi == F_fromInt(ext[3])
      fv == F_fromInt(v)
      n  == IF v < ext[2]
            THEN F_sub(F_fromInt(1), normalize(lo, fv, ce))
            ELSE normalize(ce, fv, hi)
  IN F_neg(n)

\* one iteration of the loop of normalizeSticks(): raw value v of an axis
\* with extents ext = <<low, center, high>>
normalizeAxis(ext, v) ==
  LET lo == F_fromInt(ext[1])
      ce == F_fromInt(ext[2])
      hi == F_fromInt(ext[3])
      fv == F_fromInt(v)
      n  == IF v < ext[2]
            THEN F_neg(F_sub(F_fromInt(1), normalize(lo, fv, ce)))
            ELSE normalize(ce, fv, hi)
  IN F_neg(n)

\* max_step(accum) with max_unwind_step = step
max_step(accum, step) ==
  IF accum > 0 THEN IntNeg(min(accum, step))
  ELSE IF accum < 0 THEN min(step, IntNeg(accum))
  ELSE 0

\* checkDeadzone(startIndex) on the normalized axes norm
checkDeadzone(norm, startIndex) ==
  /\ F_lt(abs(norm[startIndex]), deadzone)
  /\ F_lt(abs(norm[startIndex + 1]), deadzone)

\* startIndex >> 1
stickIndexOf(startIndex) == startIndex \div 2

(***************************************************************************)
(* HID events: <<kind, a, b, c>>.                                          *)
(***************************************************************************)
EvMove(x, y) == <<"move", x, y, 0>>
EvButtons(l, m, r) == <<"buttons", l, m, r>>
EvKeyPress(key) == <<"press", key, 0, 0>>
EvKeyRelease(key) == <<"release", key, 0, 0>>

\* setMouseButtons(startIndex): the event it sends
setMouseButtons(startIndex) ==
  LET b == stick_active_buttons[stickIndexOf(startIndex)]
  IN EvButtons(b[1], b[2], b[3])

\* setKeys(startIndex, press): the events it sends
setKeys(startIndex, press) ==
  LET key == stick_active_key[stickIndexOf(startIndex)]
  IN IF key = 0 THEN << >>
     ELSE IF press THEN <<EvKeyPress(key)>> ELSE <<EvKeyRelease(key)>>

\* the keys held down after setKeys(startIndex, press)
keysAfter(held, startIndex, press) ==
  LET key == stick_active_key[stickIndexOf(startIndex)]
  IN IF key = 0 THEN held
     ELSE IF press THEN held \cup {key} ELSE held \ {key}

(***************************************************************************)
(* The exact sum of emitted moves: carry * 2^32 + val.                     *)
(***************************************************************************)
SumZero == [carry |-> 0, val |-> 0]

SumAdd(t, x) ==
  [carry |-> t.carry + (IF AddOverflowsUp(t.val, x) THEN 1
                        ELSE IF AddOverflowsDown(t.val, x) THEN -1 ELSE 0),
   val   |-> IntAdd(t.val, x)]

(***************************************************************************)
(* Bounds and input sets.                                                  *)
(***************************************************************************)
\* a gesture has at most this many ticks that send a move
MaxGestureTicks == 3
\* an unwind is followed only if it takes at most this many iterations
MaxUnwindIters == 6

\* the raw values of the four axes that readSticks() reads in setup()
StartupReadings ==
  { <<521, 498, 530, 513>>,     \* sticks at rest near the configured centers
    <<600, 498, 530, 513>>,     \* pan stick off center
    <<3, 498, 530, 513>>,       \* pan stick held at its low end
    <<521, 7, 530, 513>> }      \* pan stick held down, just above its low end

\* the raw values analogRead can return for axis i in loop(): the value it
\* had at startup (now the center) or a deflection
Deflections ==
  [i \in Axes |-> CASE i = 0 -> {0, 531}
                    [] i = 1 -> {0}
                    [] i = 2 -> {1023}
                    [] i = 3 -> {}]

LoopSamples(extents) == [i \in Axes |-> {extents[i][2]} \cup Deflections[i]]

\* normalize() and normalizeSticks() on their own: every calibration
\* low < center < high of 0 .. NormMaxRaw and the configured ones, every raw
\* value of 0 .. NormMaxRaw and the raw values around the configured extents
NormMaxRaw == 10

NormExtents ==
  { t \in (0 .. NormMaxRaw) \X (0 .. NormMaxRaw) \X (0 .. NormMaxRaw) :
      t[1] < t[2] /\ t[2] < t[3] }
  \cup { axisExtentsConfig[i] : i \in Axes }

NormRaws ==
  (0 .. NormMaxRaw)
  \cup { axisExtentsConfig[i][k] + d : i \in Axes, k \in 1 .. 3, d \in {-1, 0, 1} }

\* normalizeAxis evaluated once for every extents and raw value of the model
normalizeAxisMemo ==
  [ev \in { <<[axisExtentsConfig[i] EXCEPT ![2] = r[i + 1]], v>> :
              i \in Axes, r \in StartupReadings,
              v \in {q[j] : q \in StartupReadings, j \in 1 .. n_axes}
                    \cup UNION {Deflections[j] : j \in Axes} }
            \cup (NormExtents \X NormRaws)
     |-> normalizeAxis(ev[1], ev[2])] @@ << >>

\* normalizeSticks(): the new normalizedAxes
normalizeSticks(values, extents) ==
  [i \in Axes |-> normalizeAxisMemo[<<extents[i], values[i]>>]]

\* to_joy evaluated once for every normalized value of the model
to_joyMemo ==
  [n \in {normalizeAxisMemo[ev] : ev \in DOMAIN normalizeAxisMemo} |-> to_joy(n)]
  @@ << >>

\* sendJoystick(): the reports <<channel, value>> it can send for the
\* normalized axes norm
sendJoystick(norm) ==
  { << <<"X", x>>, <<"Y", y>>, <<"sliderLeft", sl>>, <<"Zrotate", zr>> >> :
      x \in to_joyMemo[norm[0]], y \in to_joyMemo[norm[1]],
      sl \in to_joyMemo[norm[3]], zr \in to_joyMemo[norm[2]] }

(***************************************************************************)
(* State.                                                                  *)
(***************************************************************************)
VARIABLES
  pc,                 \* "setup", "loop" (between two calls of loop()), "unwind" (in the loop of doUnwind)
  axisExtents,        \* calibration: <<low, center, high>> per axis
  axisValues,         \* raw values of the analog inputs
  normalizedAxes,     \* normalized axis values
  unwindAccumulator,  \* [0 .. 1 -> int]
  inMove,             \* are we currently in a move?
  motionStartIndex,   \* which stick started the motion
  maxStep,            \* max_unwind_step
  events,             \* HID events sent by the current call of loop()
  mouseButtons,       \* the buttons held at the HID mouse
  keysDown,           \* the keys held at the HID keyboard
  moveSum,            \* exact sum of the moves sent since the gesture started
  unwindStart,        \* the accumulator when doUnwind was entered
  unwindIters,        \* iterations of the loop of doUnwind so far
  gestureTicks,       \* ticks of the gesture that sent a move
  gestureLog,         \* HID events sent since the last move started
  joyReports          \* joystick reports sent by the current call of loop()

vars == <<pc, axisExtents, axisValues, normalizedAxes, unwindAccumulator,
          inMove, motionStartIndex, maxStep, events, mouseButtons, keysDown,
          moveSum, unwindStart, unwindIters, gestureTicks, gestureLog,
          joyReports>>

Init ==
  /\ pc = "setup"
  /\ axisExtents = axisExtentsConfig
  /\ axisValues = [i \in Axes |-> 0]
  /\ normalizedAxes = [i \in Axes |-> FZero(1)]
  /\ unwindAccumulator = [i \in 0 .. 1 |-> 0]
  /\ inMove = FALSE
  /\ motionStartIndex = -1
  /\ maxStep = max_unwind_step
  /\ events = << >>
  /\ mouseButtons = <<0, 0, 0>>
  /\ keysDown = {}
  /\ moveSum = [i \in 0 .. 1 |-> SumZero]
  /\ unwindStart = [i \in 0 .. 1 |-> 0]
  /\ unwindIters = 0
  /\ gestureTicks = 0
  /\ gestureLog = << >>
  /\ joyReports = << >>

\* readSticks(): the raw values it can store, analogRead drawing from samples
readSticks(samples) ==
  { [i \in Axes |-> CASE i = 0 -> a [] i = 1 -> b [] i = 2 -> c [] i = 3 -> d] :
      a \in samples[0], b \in samples[1], c \in samples[2], d \in samples[3] }

\* the readings of setup() as values of axisValues
StartupValues == { [i \in Axes |-> r[i + 1]] : r \in StartupReadings }

\* setup() storing the sample in axisExtents[i][0]
setup_WrongIndex ==
  /\ pc = "setup"
  /\ IF calibrate_on_startup
     THEN \E sample \in StartupValues :
            /\ axisValues' = sample
            /\ axisExtents' = [i \in Axes |-> [axisExtents[i] EXCEPT ![1] = sample[i]]]
     ELSE UNCHANGED <<axisValues, axisExtents>>
  /\ pc' = "loop"
  /\ UNCHANGED <<normalizedAxes, unwindAccumulator, inMove, motionStartIndex,
                 maxStep, events, mouseButtons, keysDown, moveSum, unwindStart,
                 unwindIters, gestureTicks, gestureLog, joyReports>>

\* setup(): with calibrate_on_startup, readSticks() and center := sample
setup ==
  /\ pc = "setup"
  /\ IF calibrate_on_startup
     THEN \E sample \in StartupValues :
            /\ axisValues' = sample
            /\ axisExtents' = [i \in Axes |-> [axisExtents[i] EXCEPT ![2] = sample[i]]]
     ELSE UNCHANGED <<axisValues, axisExtents>>
  /\ pc' = "loop"
  /\ UNCHANGED <<normalizedAxes, unwindAccumulator, inMove, motionStartIndex,
                 maxStep, events, mouseButtons, keysDown, moveSum, unwindStart,
                 unwindIters, gestureTicks, gestureLog, joyReports>>

\* the speed of the stick that started the move
speedOf(startIndex) == IF startIndex = 0 THEN pan_speed ELSE orbit_speed

\* int xMove = speed * normalizedAxes[...]: the values the conversion can give
moveOf(speed, n) == F_toInt(F_mul(F_fromInt(speed), n))

\* lines 217-226 of sendMouse(): send one move computed from the stick at
\* startIndex, after the events sent and log, and add it to the accumulator acc
sendMove(norm, startIndex, acc, sum, sent, log) ==
  \E xMove \in moveOf(speedOf(startIndex), norm[startIndex]),
     yMove \in moveOf(speedOf(startIndex), norm[startIndex + 1]) :
       /\ events' = Append(sent, EvMove(xMove, yMove))
       /\ gestureLog' = Append(log, EvMove(xMove, yMove))
       /\ unwindAccumulator' = [i \in 0 .. 1 |->
            IF i = 0 THEN IntAdd(acc[0], xMove) ELSE IntAdd(acc[1], yMove)]
       /\ moveSum' = [i \in 0 .. 1 |->
            IF i = 0 THEN SumAdd(sum[0], xMove) ELSE SumAdd(sum[1], yMove)]

\* the loop of doUnwind() brings the accumulator a to 0 within n iterations
RECURSIVE UnwindsWithin(_, _, _)
UnwindsWithin(a, step, n) ==
  IF a = 0 THEN TRUE
  ELSE IF n = 0 THEN FALSE
  ELSE UnwindsWithin(IntAdd(a, max_step(a, step)), step, n - 1)

\* endMove without setKeys(motionStartIndex, false)
endMove_KeyHeld ==
  /\ UnwindsWithin(unwindAccumulator[0], maxStep, MaxUnwindIters)
  /\ UnwindsWithin(unwindAccumulator[1], maxStep, MaxUnwindIters)
  /\ events' = <<EvButtons(0, 0, 0)>>
  /\ gestureLog' = gestureLog \o <<EvButtons(0, 0, 0)>>
  /\ mouseButtons' = <<0, 0, 0>>
  /\ pc' = "unwind"
  /\ unwindStart' = unwindAccumulator
  /\ unwindIters' = 0
  /\ UNCHANGED <<unwindAccumulator, inMove, motionStartIndex, moveSum,
                 gestureTicks, keysDown>>

\* endMove without Mouse.set_buttons(0, 0, 0)
endMove_ButtonsHeld ==
  /\ UnwindsWithin(unwindAccumulator[0], maxStep, MaxUnwindIters)
  /\ UnwindsWithin(unwindAccumulator[1], maxStep, MaxUnwindIters)
  /\ events' = setKeys(motionStartIndex, FALSE)
  /\ gestureLog' = gestureLog \o setKeys(motionStartIndex, FALSE)
  /\ keysDown' = keysAfter(keysDown, motionStartIndex, FALSE)
  /\ pc' = "unwind"
  /\ unwindStart' = unwindAccumulator
  /\ unwindIters' = 0
  /\ UNCHANGED <<unwindAccumulator, inMove, motionStartIndex, moveSum,
                 gestureTicks, mouseButtons>>

\* sendMouse() lines 180-183: the move has stopped; release the buttons and
\* the key and enter the loop of doUnwind()
endMove ==
  /\ UnwindsWithin(unwindAccumulator[0], maxStep, MaxUnwindIters)
  /\ UnwindsWithin(unwindAccumulator[1], maxStep, MaxUnwindIters)
  /\ events' = <<EvButtons(0, 0, 0)>> \o setKeys(motionStartIndex, FALSE)
  /\ gestureLog' = gestureLog \o <<EvButtons(0, 0, 0)>> \o setKeys(motionStartIndex, FALSE)
  /\ mouseButtons' = <<0, 0, 0>>
  /\ keysDown' = keysAfter(keysDown, motionStartIndex, FALSE)
  /\ pc' = "unwind"
  /\ unwindStart' = unwindAccumulator
  /\ unwindIters' = 0
  /\ UNCHANGED <<unwindAccumulator, inMove, motionStartIndex, moveSum, gestureTicks>>

\* stayIdle sending a move of (0, 0)
stayIdle_ZeroMove ==
  /\ events' = <<EvMove(0, 0)>>
  /\ unwindStart' = [i \in 0 .. 1 |-> 0]
  /\ unwindIters' = 0
  /\ UNCHANGED <<pc, unwindAccumulator, inMove, motionStartIndex, mouseButtons,
                 keysDown, moveSum, gestureTicks, gestureLog>>

\* sendMouse() lines 203-206: everything is in deadzones, just stop
stayIdle ==
  /\ events' = << >>
  /\ unwindStart' = [i \in 0 .. 1 |-> 0]
  /\ unwindIters' = 0
  /\ UNCHANGED <<pc, unwindAccumulator, inMove, motionStartIndex, mouseButtons,
                 keysDown, moveSum, gestureTicks, gestureLog>>

\* startMove setting the mouse buttons before it presses the key
startMove_ButtonsFirst(norm, start) ==
  /\ motionStartIndex' = start
  /\ inMove' = TRUE
  /\ keysDown' = keysAfter(keysDown, start, TRUE)
  /\ mouseButtons' = stick_active_buttons[stickIndexOf(start)]
  /\ sendMove(norm, start, [i \in 0 .. 1 |-> 0], [i \in 0 .. 1 |-> SumZero],
              <<setMouseButtons(start)>> \o setKeys(start, TRUE),
              <<setMouseButtons(start)>> \o setKeys(start, TRUE))
  /\ gestureTicks' = 1
  /\ unwindStart' = [i \in 0 .. 1 |-> 0]
  /\ unwindIters' = 0
  /\ UNCHANGED pc

\* sendMouse() lines 197-226: start a new move from the stick at start and
\* send its first motion
startMove(norm, start) ==
  /\ motionStartIndex' = start
  /\ inMove' = TRUE
  /\ keysDown' = keysAfter(keysDown, start, TRUE)
  /\ mouseButtons' = stick_active_buttons[stickIndexOf(start)]
  /\ sendMove(norm, start, [i \in 0 .. 1 |-> 0], [i \in 0 .. 1 |-> SumZero],
              setKeys(start, TRUE) \o <<setMouseButtons(start)>>,
              setKeys(start, TRUE) \o <<setMouseButtons(start)>>)
  /\ gestureTicks' = 1
  /\ unwindStart' = [i \in 0 .. 1 |-> 0]
  /\ unwindIters' = 0
  /\ UNCHANGED pc

\* sendMouse() lines 217-226 while the move goes on
continueMove(norm) ==
  /\ gestureTicks < MaxGestureTicks
  /\ sendMove(norm, motionStartIndex, unwindAccumulator, moveSum, << >>, gestureLog)
  /\ gestureTicks' = gestureTicks + 1
  /\ UNCHANGED <<pc, inMove, motionStartIndex, mouseButtons, keysDown,
                 unwindStart, unwindIters>>

\* sendMouse() with the start of a move not guarded by !inMove
sendMouse_NoMute(norm) ==
  IF inMove /\ checkDeadzone(norm, motionStartIndex) THEN endMove
  ELSE IF ~checkDeadzone(norm, 0) THEN startMove(norm, 0)
  ELSE IF ~checkDeadzone(norm, 2) THEN startMove(norm, 2)
  ELSE stayIdle

\* sendMouse() checking the orbit stick before the pan stick
sendMouse_OrbitFirst(norm) ==
  IF inMove /\ checkDeadzone(norm, motionStartIndex) THEN endMove
  ELSE IF ~inMove
       THEN IF ~checkDeadzone(norm, 2) THEN startMove(norm, 2)
            ELSE IF ~checkDeadzone(norm, 0) THEN startMove(norm, 0)
            ELSE stayIdle
       ELSE continueMove(norm)

\* sendMouse() starting a move from the other stick in the call that finds
\* the origin stick back in its deadzone
sendMouse_SwitchStick(norm) ==
  IF inMove /\ checkDeadzone(norm, motionStartIndex)
  THEN IF ~checkDeadzone(norm, 2 - motionStartIndex)
       THEN startMove(norm, 2 - motionStartIndex)
       ELSE endMove
  ELSE IF ~inMove
       THEN IF ~checkDeadzone(norm, 0) THEN startMove(norm, 0)
            ELSE IF ~checkDeadzone(norm, 2) THEN startMove(norm, 2)
            ELSE stayIdle
       ELSE continueMove(norm)

\* sendMouse() on the normalized axes norm
sendMouse(norm) ==
  IF inMove /\ checkDeadzone(norm, motionStartIndex) THEN endMove
  ELSE IF ~inMove
       THEN IF ~checkDeadzone(norm, 0) THEN startMove(norm, 0)
            ELSE IF ~checkDeadzone(norm, 2) THEN startMove(norm, 2)
            ELSE stayIdle
       ELSE continueMove(norm)

\* loop(): readSticks(), normalizeSticks(), sendJoystick() if
\* send_joystick_hid, sendMouse()
loop ==
  /\ pc = "loop"
  /\ \E raw \in readSticks(LoopSamples(axisExtents)) :
       LET norm == normalizeSticks(raw, axisExtents) IN
       /\ axisValues' = raw
       /\ normalizedAxes' = norm
       /\ IF send_joystick_hid
          THEN joyReports' \in sendJoystick(norm)
          ELSE joyReports' = << >>
       /\ sendMouse(norm)
  /\ UNCHANGED <<axisExtents, maxStep>>

\* one iteration of the loop of doUnwind()
unwindStep ==
  /\ pc = "unwind"
  /\ unwindAccumulator[0] # 0 \/ unwindAccumulator[1] # 0
  /\ LET xMove == max_step(unwindAccumulator[0], maxStep)
         yMove == max_step(unwindAccumulator[1], maxStep)
     IN /\ events' = Append(events, EvMove(xMove, yMove))
        /\ gestureLog' = Append(gestureLog, EvMove(xMove, yMove))
        /\ unwindAccumulator' = [i \in 0 .. 1 |->
             IF i = 0 THEN IntAdd(unwindAccumulator[0], xMove)
             ELSE IntAdd(unwindAccumulator[1], yMove)]
        /\ moveSum' = [i \in 0 .. 1 |->
             IF i = 0 THEN SumAdd(moveSum[0], xMove) ELSE SumAdd(moveSum[1], yMove)]
  /\ unwindIters' = unwindIters + 1
  /\ UNCHANGED <<pc, axisExtents, axisValues, normalizedAxes, inMove,
                 motionStartIndex, maxStep, mouseButtons, keysDown, unwindStart,
                 gestureTicks, joyReports>>

\* the loop of doUnwind() exits; sendMouse() lines 185-186 and the end of loop()
unwindDone ==
  /\ pc = "unwind"
  /\ unwindAccumulator[0] = 0 /\ unwindAccumulator[1] = 0
  /\ inMove' = FALSE
  /\ pc' = "loop"
  /\ UNCHANGED <<axisExtents, axisValues, normalizedAxes, unwindAccumulator,
                 motionStartIndex, maxStep, events, mouseButtons, keysDown,
                 moveSum, unwindStart, unwindIters, gestureTicks, gestureLog,
                 joyReports>>

Next ==
  \/ setup
  \/ loop
  \/ unwindStep
  \/ unwindDone

Spec == Init /\ [][Next]_vars

TypeOK ==
  /\ pc \in {"setup", "loop", "unwind"}
  /\ inMove \in BOOLEAN
  /\ motionStartIndex \in {-1, 0, 2}

(***************************************************************************)
(* doUnwind() on its own: the loop started from any accumulator of         *)
(* UnwindAccs with any step of UnwindSteps.                                *)
(***************************************************************************)
UnwindMaxAcc == 7
UnwindMaxStep == 3

UnwindAccs == (-UnwindMaxAcc .. UnwindMaxAcc) \cup {-250, 250, INT_MIN}
UnwindSteps == (1 .. UnwindMaxStep) \cup {max_unwind_step}

UnwindInit ==
  /\ pc = "unwind"
  /\ axisExtents = axisExtentsConfig
  /\ axisValues = [i \in Axes |-> axisExtentsConfig[i][2]]
  /\ normalizedAxes = [i \in Axes |-> FZero(-1)]
  /\ \E ax \in UnwindAccs, ay \in UnwindAccs :
       /\ unwindAccumulator = [i \in 0 .. 1 |-> IF i = 0 THEN ax ELSE ay]
       /\ unwindStart = [i \in 0 .. 1 |-> IF i = 0 THEN ax ELSE ay]
  /\ inMove = TRUE
  /\ motionStartIndex = 0
  /\ maxStep \in UnwindSteps
  /\ events = << >>
  /\ mouseButtons = <<0, 0, 0>>
  /\ keysDown = {}
  /\ moveSum = [i \in 0 .. 1 |-> SumZero]
  /\ unwindIters = 0
  /\ gestureTicks = 0
  /\ gestureLog = << >>
  /\ joyReports = << >>

UnwindNext == unwindStep \/ unwindDone

UnwindSpec == UnwindInit /\ [][UnwindNext]_vars

(***************************************************************************)
(* normalizeSticks() on its own: the axes share one calibration of         *)
(* NormExtents and one raw value of NormRaws; pc = "setup" until the first *)
(* call.                                                                   *)
(***************************************************************************)
NormInit ==
  /\ pc = "setup"
  /\ \E ext \in NormExtents : axisExtents = [i \in Axes |-> ext]
  /\ axisValues = [i \in Axes |-> 0]
  /\ normalizedAxes = [i \in Axes |-> FZero(1)]
  /\ unwindAccumulator = [i \in 0 .. 1 |-> 0]
  /\ inMove = FALSE
  /\ motionStartIndex = -1
  /\ maxStep = max_unwind_step
  /\ events = << >>
  /\ mouseButtons = <<0, 0, 0>>
  /\ keysDown = {}
  /\ moveSum = [i \in 0 .. 1 |-> SumZero]
  /\ unwindStart = [i \in 0 .. 1 |-> 0]
  /\ unwindIters = 0
  /\ gestureTicks = 0
  /\ gestureLog = << >>
  /\ joyReports = << >>

\* readSticks() and normalizeSticks(), lines 243-244 of loop()
readAndNormalize ==
  /\ pc \in {"setup", "loop"}
  /\ \E v \in NormRaws :
       /\ axisValues' = [i \in Axes |-> v]
       /\ normalizedAxes' = normalizeSticks([i \in Axes |-> v], axisExtents)
  /\ pc' = "loop"
  /\ UNCHANGED <<axisExtents, unwindAccumulator, inMove, motionStartIndex,
                 maxStep, events, mouseButtons, keysDown, moveSum, unwindStart,
                 unwindIters, gestureTicks, gestureLog, joyReports>>

NormNext == readAndNormalize

NormSpec == NormInit /\ [][NormNext]_vars

(***************************************************************************)
(* sendJoystick() on its own: loop() built with send_joystick_hid = true,  *)
(* on the calibrations of NormSpec; axis 0 takes the raw values of         *)
(* NormSpec, the other axes rest at their centers.                         *)
(***************************************************************************)
\* readSticks(), normalizeSticks() and sendJoystick(), lines 243-248 of loop()
reportJoystick ==
  /\ pc \in {"setup", "loop"}
  /\ \E v \in NormRaws :
       LET raw  == [i \in Axes |-> IF i = 0 THEN v ELSE axisExtents[i][2]]
           norm == normalizeSticks(raw, axisExtents)
       IN
       /\ axisValues' = raw
       /\ normalizedAxes' = norm
       /\ joyReports' \in sendJoystick(norm)
  /\ pc' = "loop"
  /\ UNCHANGED <<axisExtents, unwindAccumulator, inMove, motionStartIndex,
                 maxStep, events, mouseButtons, keysDown, moveSum, unwindStart,
                 unwindIters, gestureTicks, gestureLog>>

JoyNext == reportJoystick

JoySpec == NormInit /\ [][JoyNext]_vars

(***************************************************************************)
(* C1: whenever the state machine is back in Idle, the moves sent since    *)
(* the gesture started (steady-state moves and unwind moves) sum to        *)
(* exactly (0, 0).                                                         *)
(***************************************************************************)
C1_GestureZeroSum ==
  (pc = "loop" /\ ~inMove) => (moveSum[0] = SumZero /\ moveSum[1] = SumZero)

\* the loop of doUnwind() has exited
UnwindExited == pc = "unwind" /\ unwindAccumulator[0] = 0 /\ unwindAccumulator[1] = 0

(***************************************************************************)
(* C2: from any accumulator (ax, ay) and with any positive step, when the  *)
(* loop of doUnwind() exits the moves it sent sum to (-ax, -ay) exactly    *)
(* (sum + start = 0 on both axes) and the accumulator is (0, 0).           *)
(***************************************************************************)
C2_UnwindZeroSum ==
  UnwindExited =>
    \A i \in 0 .. 1 : SumAdd(moveSum[i], unwindStart[i]) = SumZero

(***************************************************************************)
(* C3: every move sent by the loop of doUnwind() has |dx| <= maxStep and   *)
(* |dy| <= maxStep, maxStep = max_unwind_step = 100.                       *)
(***************************************************************************)
C3_UnwindStepBound ==
  pc = "unwind" =>
    \A k \in 1 .. Len(events) :
      events[k][1] = "move" =>
        /\ -max_unwind_step <= events[k][2] /\ events[k][2] <= max_unwind_step
        /\ -max_unwind_step <= events[k][3] /\ events[k][3] <= max_unwind_step

\* n = ceil(|a| / d) and n >= ceil(|a| / d), for an int a, d > 0 and n >= 0
CeilAbsDivIs(a, d, n) ==
  IF a >= 0 THEN (a + (d - 1)) \div d = n ELSE a \div d = -n
CeilAbsDivAtMost(a, d, n) ==
  IF a >= 0 THEN (a + (d - 1)) \div d <= n ELSE a \div d >= -n

(***************************************************************************)
(* C4: the loop of doUnwind() exits after exactly                          *)
(* ceil(max(|ax|, |ay|) / maxStep) iterations.                             *)
(***************************************************************************)
C4_UnwindIterations ==
  UnwindExited =>
    /\ \E i \in 0 .. 1 : CeilAbsDivIs(unwindStart[i], maxStep, unwindIters)
    /\ \A i \in 0 .. 1 : CeilAbsDivAtMost(unwindStart[i], maxStep, unwindIters)

(***************************************************************************)
(* C5: in a call of loop() that finds a move in progress and its stick     *)
(* still outside the deadzone, the origin stick, the buttons and the keys  *)
(* do not change and the only event is one move computed from the origin   *)
(* stick's two axes and its speed, whatever the other stick's axes are.    *)
(***************************************************************************)
C5_OriginExclusivity ==
  [][ (pc = "loop" /\ inMove /\ ~checkDeadzone(normalizedAxes', motionStartIndex))
      => /\ inMove'
         /\ motionStartIndex' = motionStartIndex
         /\ mouseButtons' = mouseButtons
         /\ keysDown' = keysDown
         /\ Len(events') = 1
         /\ events'[1][1] = "move"
         /\ events'[1][2] \in moveOf(speedOf(motionStartIndex),
                                     normalizedAxes'[motionStartIndex])
         /\ events'[1][3] \in moveOf(speedOf(motionStartIndex),
                                     normalizedAxes'[motionStartIndex + 1]) ]_vars

\* a move started by the orbit stick goes on while the pan stick is deflected
C5_Witness ==
  /\ pc = "loop" /\ inMove /\ motionStartIndex = 2 /\ gestureTicks >= 2
  /\ ~checkDeadzone(normalizedAxes, 0)
  /\ Len(events) = 1 /\ events[1][1] = "move"

\* |x| <= deadzone
WithinThreshold(x) == IsFinite(x) /\ ~F_gt(abs(x), deadzone)

(***************************************************************************)
(* C6: a stick is classified inactive (in its deadzone) iff both of its    *)
(* normalized axes are within +-deadzone, and active iff either exceeds it.*)
(***************************************************************************)
C6_DeadzoneClassifier ==
  pc # "setup" =>
    \A s \in {0, 2} :
      checkDeadzone(normalizedAxes, s)
        <=> (WithinThreshold(normalizedAxes[s]) /\ WithinThreshold(normalizedAxes[s + 1]))

\* low < center < high
ValidExtents(ext) == ext[1] < ext[2] /\ ext[2] < ext[3]

(***************************************************************************)
(* C7: with a valid calibration, a raw value equal to the center is        *)
(* normalized to exactly 0.                                                *)
(***************************************************************************)
C7_NormalizeCenterIsZero ==
  pc = "loop" =>
    \A i \in Axes :
      (ValidExtents(axisExtents[i]) /\ axisValues[i] = axisExtents[i][2])
        => IsZero(normalizedAxes[i])

\* a raw value at an off-center center has been normalized
C7_Witness ==
  /\ pc = "loop"
  /\ \E i \in Axes :
       /\ ValidExtents(axisExtents[i])
       /\ axisValues[i] = axisExtents[i][2]
       /\ axisExtents[i][2] - axisExtents[i][1] # axisExtents[i][3] - axisExtents[i][2]
       /\ IsZero(normalizedAxes[i])

\* low <= v <= high
InExtents(ext, v) == ext[1] <= v /\ v <= ext[3]

\* a <= b
F_le(a, b) == F_lt(a, b) \/ F_eq(a, b)

(***************************************************************************)
(* C8: with a valid calibration, for raw values in [low, high] a larger    *)
(* raw value never gives a larger normalized value (the channels are       *)
(* inverted), across the center too: low gives 1, center 0, high -1.       *)
(***************************************************************************)
C8_NormalizeMonotonic ==
  [][ \A i \in Axes :
        ( /\ pc = "loop"
          /\ ValidExtents(axisExtents[i])
          /\ InExtents(axisExtents[i], axisValues[i])
          /\ InExtents(axisExtents[i], axisValues'[i])
          /\ axisValues[i] <= axisValues'[i] )
        => /\ F_le(normalizedAxes'[i], normalizedAxes[i])
           /\ axisValues'[i] = axisExtents[i][1] => F_eq(normalizedAxes'[i], F_fromInt(1))
           /\ axisValues'[i] = axisExtents[i][2] => IsZero(normalizedAxes'[i])
           /\ axisValues'[i] = axisExtents[i][3] => F_eq(normalizedAxes'[i], F_fromInt(-1)) ]_vars

\* a raw value strictly between an off-center center and high has been normalized
C8_Witness ==
  /\ pc = "loop"
  /\ \E i \in Axes :
       /\ ValidExtents(axisExtents[i])
       /\ axisExtents[i][2] < axisValues[i] /\ axisValues[i] < axisExtents[i][3]
       /\ axisExtents[i][2] - axisExtents[i][1] # axisExtents[i][3] - axisExtents[i][2]
       /\ F_lt(normalizedAxes[i], FZero(1))
       /\ F_lt(F_fromInt(-1), normalizedAxes[i])

(***************************************************************************)
(* C9: setup() sets the center of every axis to the raw value it sampled   *)
(* and keeps the configured low and high; after setup() no step changes    *)
(* low, center or high of any axis.                                        *)
(***************************************************************************)
C9_CalibrationOnlyAtStartup ==
  [][ /\ pc = "setup" =>
           axisExtents' = [i \in Axes |-> <<axisExtentsConfig[i][1], axisValues'[i],
                                            axisExtentsConfig[i][3]>>]
      /\ pc # "setup" => axisExtents' = axisExtents ]_vars

\* calibrated to 600 on axis 0, a whole gesture and its unwind later, raw 600 gives 0
C9_Witness ==
  /\ pc = "loop" /\ ~inMove /\ unwindIters > 0
  /\ axisExtents[0] = <<3, 600, 1021>>
  /\ axisValues[0] = 600
  /\ IsZero(normalizedAxes[0])

(***************************************************************************)
(* C10: in every reachable state every axis has low < center < high.       *)
(***************************************************************************)
C10_CalibrationValid ==
  \A i \in Axes : ValidExtents(axisExtents[i])

\* the events of log at positions a .. b are all moves
AllMoves(log, a, b) == \A k \in a .. b : log[k][1] = "move"

(***************************************************************************)
(* C11: the call of loop() that starts a move sends the key press of the   *)
(* origin stick (only if its key is non-null), then the stick's mouse      *)
(* buttons, then the first move, in that order and nothing else; and the   *)
(* events of a gesture whose origin stick was active for n calls are that  *)
(* key press, one button press, exactly n moves, then the release of the   *)
(* buttons and of the key, then the moves of the unwind, one per           *)
(* iteration.                                                              *)
(***************************************************************************)
C11_GestureLifecycle ==
  /\ (pc = "loop" /\ inMove /\ gestureTicks = 1) =>
       LET press == setKeys(motionStartIndex, TRUE)
           k == Len(press)
       IN /\ Len(events) = k + 2
          /\ SubSeq(events, 1, k) = press
          /\ events[k + 1] = setMouseButtons(motionStartIndex)
          /\ events[k + 2][1] = "move"
  /\ (pc = "loop" /\ inMove) =>
       LET press == setKeys(motionStartIndex, TRUE)
           k == Len(press)
           n == gestureTicks
       IN /\ Len(gestureLog) = k + 1 + n
          /\ SubSeq(gestureLog, 1, k + 1) = press \o <<setMouseButtons(motionStartIndex)>>
          /\ AllMoves(gestureLog, k + 2, k + 1 + n)
  /\ (pc = "unwind" \/ (pc = "loop" /\ ~inMove /\ gestureLog # << >>)) =>
       LET press == setKeys(motionStartIndex, TRUE)
           k == Len(press)
           n == gestureTicks
       IN /\ Len(gestureLog) >= 2 * k + 2 + n
          /\ SubSeq(gestureLog, 1, k + 1) = press \o <<setMouseButtons(motionStartIndex)>>
          /\ AllMoves(gestureLog, k + 2, k + 1 + n)
          /\ SubSeq(gestureLog, k + 2 + n, 2 * k + 2 + n)
               = <<EvButtons(0, 0, 0)>> \o setKeys(motionStartIndex, FALSE)
          /\ AllMoves(gestureLog, 2 * k + 3 + n, Len(gestureLog))
          /\ pc = "unwind" => Len(gestureLog) = 2 * k + 2 + n + unwindIters

\* an orbit gesture of three calls has ended and its unwind has sent a move
C11_Witness ==
  /\ pc = "loop" /\ ~inMove /\ motionStartIndex = 2 /\ gestureTicks = 3
  /\ Len(gestureLog) > 7

(***************************************************************************)
(* C12: every value that sendJoystick() reports, to_joy of a normalized    *)
(* axis, lies in 0 .. 1023, for every raw value analogRead can return;     *)
(* sendJoystick() runs only in a build with send_joystick_hid, and         *)
(* joyReports stays empty in Spec, where the flag is false.                *)
(***************************************************************************)
C12_JoystickRange ==
  \A k \in DOMAIN joyReports :
    0 <= joyReports[k][2] /\ joyReports[k][2] <= 1023

(***************************************************************************)
(* C13: in the call of loop() that ends a move, Mouse.set_buttons(0, 0, 0) *)
(* and the release of the origin stick's key (if it has one) are sent      *)
(* before the first move of the unwind, and while doUnwind() runs no mouse *)
(* button and no key is held.                                              *)
(***************************************************************************)
C13_ReleaseBeforeUnwind ==
  pc = "unwind" =>
    LET rel == <<EvButtons(0, 0, 0)>> \o setKeys(motionStartIndex, FALSE)
        r   == Len(rel)
    IN /\ Len(events) = r + unwindIters
       /\ SubSeq(events, 1, r) = rel
       /\ AllMoves(events, r + 1, Len(events))
       /\ mouseButtons = <<0, 0, 0>>
       /\ keysDown = {}

\* the unwind of an orbit gesture has sent a move
C13_Witness ==
  pc = "unwind" /\ motionStartIndex = 2 /\ unwindIters >= 1

(***************************************************************************)
(* C14: after every call of loop() that leaves a move in progress, the     *)
(* call has sent exactly one move, as its last event, and each component   *)
(* of the accumulator equals the exact sum of the moves sent since the     *)
(* move started.                                                           *)
(***************************************************************************)
C14_AccumulatorIsMoveSum ==
  (pc = "loop" /\ inMove) =>
    /\ events # << >>
    /\ \A k \in DOMAIN events : events[k][1] = "move" <=> k = Len(events)
    /\ \A i \in 0 .. 1 :
         moveSum[i] = [carry |-> 0, val |-> unwindAccumulator[i]]

(***************************************************************************)
(* C15: a call of loop() that finds a move in progress and its origin      *)
(* stick in the deadzone sends the release and enters doUnwind() with the  *)
(* origin and the accumulator as they were: no move computed from the      *)
(* axes, no key press, no button press, whatever the other stick does;     *)
(* inside doUnwind() the only events are the moves max_step gives; and the *)
(* call ends with no move in progress and the accumulator at (0, 0), so a  *)
(* new move starts in a later call at the earliest.                        *)
(***************************************************************************)
C15_EndTickGoesIdle ==
  /\ [][(pc = "loop" /\ inMove /\ checkDeadzone(normalizedAxes', motionStartIndex)) =>
         /\ pc' = "unwind"
         /\ events' = <<EvButtons(0, 0, 0)>> \o setKeys(motionStartIndex, FALSE)
         /\ UNCHANGED <<inMove, motionStartIndex, unwindAccumulator>>]_vars
  /\ [][pc = "unwind" =>
         \/ /\ pc' = "unwind"
            /\ events' = Append(events, EvMove(max_step(unwindAccumulator[0], maxStep),
                                               max_step(unwindAccumulator[1], maxStep)))
            /\ UNCHANGED <<inMove, motionStartIndex>>
         \/ /\ pc' = "loop"
            /\ ~inMove'
            /\ unwindAccumulator' = [i \in 0 .. 1 |-> 0]
            /\ UNCHANGED <<events, motionStartIndex>>]_vars

\* a call has ended a move, unwound it and left the program idle while the
\* other stick was outside its deadzone
C15_Witness ==
  /\ pc = "loop" /\ ~inMove /\ unwindIters >= 1
  /\ events # << >> /\ events[1] = EvButtons(0, 0, 0)
  /\ ~checkDeadzone(normalizedAxes, 2 - motionStartIndex)

(***************************************************************************)
(* C16: a call of loop() with no move in progress checks the pan stick     *)
(* (axes 0, 1) before the orbit stick (axes 2, 3): an active pan stick     *)
(* becomes the origin even when the orbit stick is active too, the orbit   *)
(* stick becomes the origin exactly when it is active and the pan stick is *)
(* not, and the accumulator of the new move starts from (0, 0): after the  *)
(* call it is the first move.                                              *)
(***************************************************************************)
C16_IdlePriority ==
  [][(pc = "loop" /\ ~inMove) =>
       LET panActive   == ~checkDeadzone(normalizedAxes', 0)
           orbitActive == ~checkDeadzone(normalizedAxes', 2)
           last        == events'[Len(events')]
       IN /\ panActive => (inMove' /\ motionStartIndex' = 0)
          /\ (~panActive /\ orbitActive) => (inMove' /\ motionStartIndex' = 2)
          /\ (~panActive /\ ~orbitActive) => ~inMove'
          /\ inMove' =>
               /\ last[1] = "move"
               /\ unwindAccumulator' = [i \in 0 .. 1 |-> last[i + 2]]]_vars

\* a move has started from the pan stick in a call that found both sticks
\* outside their deadzones
C16_Witness ==
  /\ pc = "loop" /\ inMove /\ gestureTicks = 1 /\ motionStartIndex = 0
  /\ ~checkDeadzone(normalizedAxes, 0)
  /\ ~checkDeadzone(normalizedAxes, 2)

(***************************************************************************)
(* C17: a call of loop() with no move in progress that finds both sticks   *)
(* in their deadzones sends no HID event (no move, no button, no key) and  *)
(* leaves inMove, motionStartIndex and the accumulator, and with them the  *)
(* buttons and keys held, unchanged.                                       *)
(***************************************************************************)
C17_IdleTickIsSilent ==
  [][(/\ pc = "loop" /\ ~inMove
      /\ checkDeadzone(normalizedAxes', 0)
      /\ checkDeadzone(normalizedAxes', 2)) =>
       /\ events' = << >>
       /\ pc' = "loop"
       /\ UNCHANGED <<inMove, motionStartIndex, unwindAccumulator,
                      mouseButtons, keysDown, gestureLog>>]_vars

\* a call with both sticks in their deadzones has followed a finished gesture
C17_Witness ==
  /\ pc = "loop" /\ ~inMove /\ gestureTicks >= 1 /\ events = << >>
  /\ checkDeadzone(normalizedAxes, 0)
  /\ checkDeadzone(normalizedAxes, 2)

C19_HeldIffActive ==
  pc # "unwind" =>
    /\ inMove =>
         /\ motionStartIndex \in {0, 2}
         /\ mouseButtons = stick_active_buttons[stickIndexOf(motionStartIndex)]
         /\ mouseButtons # <<0, 0, 0>>
         /\ keysDown = { stick_active_key[stickIndexOf(motionStartIndex)] } \ {0}
    /\ ~inMove =>
         /\ mouseButtons = <<0, 0, 0>>
         /\ keysDown = {}

\* a step sends a key press only for a key that is not held and a key
\* release only for a key that is held, and the keys held change with
\* these events only
C19_KeyEventsAlternate ==
  /\ pc = "loop" =>
       /\ \A k \in DOMAIN events' :
            /\ events'[k][1] = "press" =>
                 /\ events'[k][2] \notin keysDown
                 /\ keysDown' = keysDown \cup {events'[k][2]}
            /\ events'[k][1] = "release" =>
                 /\ events'[k][2] \in keysDown
                 /\ keysDown' = keysDown \ {events'[k][2]}
       /\ keysDown' # keysDown =>
            \E k \in DOMAIN events' : events'[k][1] \in {"press", "release"}
  /\ pc = "unwind" =>
       /\ keysDown' = keysDown
       /\ \A k \in DOMAIN events' :
            k > Len(events) => events'[k][1] = "move"

(***************************************************************************)
(* C19: between two calls of loop() the mouse buttons are in the origin    *)
(* stick's configured state iff a move is in progress and all released     *)
(* otherwise; a key is held iff a move is in progress and its origin stick *)
(* has a non-null key; key presses and key releases alternate, starting    *)
(* with a press; and motionStartIndex is 0 or 2 whenever a move is in      *)
(* progress.                                                               *)
(***************************************************************************)
C19_ButtonsAndKeysFollowGesture ==
  []C19_HeldIffActive /\ [][C19_KeyEventsAlternate]_vars

\* the second call of an orbit gesture: the shift key and the middle button
\* are held
C19_Witness ==
  /\ pc = "loop" /\ inMove /\ motionStartIndex = 2 /\ gestureTicks = 2
  /\ keysDown = {KEY_LEFT_SHIFT}
  /\ mouseButtons = stick_active_buttons[1]

(***************************************************************************)
(* C20: the accumulator never wraps: on both axes the exact sum of the     *)
(* moves sent since the move started stays within INT_MIN .. INT_MAX, and  *)
(* the accumulator handed to doUnwind() is never INT_MIN, the one value    *)
(* whose negation in max_step overflows.                                   *)
(***************************************************************************)
C20_AccumulatorInIntRange ==
  \A i \in 0 .. 1 :
    /\ moveSum[i].carry = 0
    /\ pc = "unwind" => unwindAccumulator[i] # INT_MIN

====
